---- MODULE Spec2Model ----
(***************************************************************************)
(* Model of kcenon/container_system's two Python tools:                    *)
(*   fuzz/generate_corpus.py      - the seed-corpus (fixture) generator    *)
(*   scripts/compare_benchmarks.py - the benchmark comparator              *)
(* together with the Value/Container decoder that the specification        *)
(* describes (the decoder is not part of the Python sources).              *)
(*                                                                         *)
(* A byte string is a sequence of integers in 0..255.  TLC's integers are  *)
(* 32 bits wide, so 32- and 64-bit quantities are never held as one        *)
(* integer: a number is a sign and a sequence of 16-bit limbs, and a       *)
(* decoded 4-byte length is a pair of 16-bit halves.                       *)
(***************************************************************************)
EXTENDS Integers, Sequences, FiniteSets, TLC

\* ------------------------------------------------------------------ bounds

\* Longest name drawn for the encoder's inputs.
MaxNameLen == 2
\* Most values drawn for a container given to make_container.
MaxValues == 2
\* Benchmark names drawn for the comparator's input files.
NumNames == 2
\* Runs of the generator over the same directories.
MaxRuns == 2

\* ------------------------------------------------------------------- state

VARIABLES
    \* encoder/decoder harness
    mode,       \* "value" | "container" | "idle": which encoder is exercised
    input,      \* the arguments given to make_value
    out,        \* make_value's result
    dec,        \* the decoder's result on `out`
    valueList,  \* the list handed to make_container
    cont,       \* make_container's result
    \* generate_corpus.py
    gpc,        \* index of the next statement of main_program
    fsys,       \* the file system of each of two independent runs
    written,    \* how often this run opened each path for writing
    run,        \* 1 for the first run, 2 for the run over its own output...
    snapshot,   \* the fixtures as the first run left them
    stdout,     \* the counts printed, per independent run
    seed,       \* a fixture handed to the decoder by the fuzz harness
    \* compare_benchmarks.py
    cpc,        \* position in main()
    args,       \* the parsed command line and the files it names
    baseLoaded, \* load_benchmarks(args.base)
    prLoaded,   \* load_benchmarks(args.pr)
    results,    \* compare_benchmarks' (regressions, improvements, unchanged)
    outputs,    \* the report file and the regression_detected flag file
    exitStatus  \* the process's exit status

codecVars == <<mode, input, out, dec, valueList, cont>>

genVars == <<gpc, fsys, written, run, snapshot, stdout, seed>>

cmpVars == <<cpc, args, baseLoaded, prLoaded, results, outputs, exitStatus>>

vars == <<codecVars, genVars, cmpVars>>

\* ------------------------------------------------------------ byte strings

Byte == 0..255

\* No byte string (a result not yet computed, a file that does not exist).
NoBytes == <<-1>>

Max(a, b) == IF a >= b THEN a ELSE b

Abs(i) == IF i < 0 THEN -i ELSE i

\* b"".join(values)
RECURSIVE Join(_)
Join(values) ==
    IF values = <<>> THEN <<>> ELSE Head(values) \o Join(Tail(values))

\* bytes([0]) * n
Zeros(n) == [i \in 1..n |-> 0]

\* bytes(range(n))
Range(n) == [i \in 1..n |-> i - 1]

\* A Python integer literal: sign and magnitude, the magnitude as 16-bit
\* limbs, most significant first.
IntLit(i) ==
    [neg |-> i < 0, limbs |-> <<Abs(i) \div 65536, Abs(i) % 65536>>]

HexLit(limbs) == [neg |-> FALSE, limbs |-> limbs]

NegHexLit(limbs) == [neg |-> TRUE, limbs |-> limbs]

\* The k-th (1-based) little-endian byte of a magnitude.
MagByte(limbs, k) ==
    LET j    == (k - 1) \div 2
        limb == IF j < Len(limbs) THEN limbs[Len(limbs) - j] ELSE 0
    IN  IF k % 2 = 1 THEN limb % 256 ELSE limb \div 256

\* -x modulo 2^(8*Len(bytes)): invert every byte, add one with carry.
RECURSIVE AddOne(_)
AddOne(bytes) ==
    IF bytes = <<>> THEN <<>>
    ELSE IF Head(bytes) = 255 THEN <<0>> \o AddOne(Tail(bytes))
    ELSE <<Head(bytes) + 1>> \o Tail(bytes)

TwosComplement(bytes) == AddOne([i \in 1..Len(bytes) |-> 255 - bytes[i]])

\* Mutant of struct_pack: the magnitude's bytes, whatever the sign.
struct_pack_magnitude(width, v) == [k \in 1..width |-> MagByte(v.limbs, k)]

\* struct.pack("<h" | "<H" | "<i" | "<I" | "<q" | "<Q", v): the `width`
\* little-endian bytes of v, a negative v in two's complement.
struct_pack(width, v) ==
    LET mag == [k \in 1..width |-> MagByte(v.limbs, k)]
    IN  IF v.neg THEN TwosComplement(mag) ELSE mag

\* struct.pack("<I", n) for a length n.
pack_len(n) == struct_pack(4, IntLit(n))

\* ------------------------------------------------- struct.pack("<f"/"<d")

\* The n binary digits of a natural number below 2^n.
RECURSIVE FixedBits(_, _)
FixedBits(n, width) ==
    IF width = 0 THEN <<>> ELSE FixedBits(n \div 2, width - 1) \o <<n % 2>>

\* A decimal fraction 0.d1d2... times 256: the digits of the product's
\* fraction and its integer part (the next eight binary digits).
RECURSIVE Times256(_)
Times256(digits) ==
    IF digits = <<>> THEN [carry |-> 0, digits |-> <<>>]
    ELSE LET rest == Times256(Tail(digits))
             d    == 256 * Head(digits) + rest.carry
         IN  [carry |-> d \div 10, digits |-> <<d % 10>> \o rest.digits]

\* The first 8 * n binary digits of the fraction, and what is left of it.
RECURSIVE FracBits(_, _)
FracBits(digits, n) ==
    IF n = 0 THEN [bits |-> <<>>, rest |-> digits]
    ELSE LET d    == Times256(digits)
             more == FracBits(d.digits, n - 1)
         IN  [bits |-> FixedBits(d.carry, 8) \o more.bits,
              rest |-> more.rest]

\* The binary digits of a natural number, most significant first.
RECURSIVE NatBits(_)
NatBits(n) == IF n = 0 THEN <<>> ELSE NatBits(n \div 2) \o <<n % 2>>

\* bits + 1, most significant first; the carry out is dropped.
RECURSIVE IncBits(_)
IncBits(bits) ==
    IF bits = <<>> THEN <<>>
    ELSE IF bits[Len(bits)] = 0
         THEN SubSeq(bits, 1, Len(bits) - 1) \o <<1>>
         ELSE IncBits(SubSeq(bits, 1, Len(bits) - 1)) \o <<0>>

BitsToByte(bits) ==
    128 * bits[1] + 64 * bits[2] + 32 * bits[3] + 16 * bits[4]
    + 8 * bits[5] + 4 * bits[6] + 2 * bits[7] + bits[8]

\* IEEE-754 binary encoding of the positive decimal literal
\* intpart.fracdigits (intpart >= 1), round to nearest even, little-endian.
pack_float(ebits, mbits, intpart, fracdigits) ==
    LET ib      == NatBits(intpart)
        e       == Len(ib) - 1
        fb      == FracBits(fracdigits, (mbits - e + 8) \div 8)
        all     == Tail(ib) \o fb.bits
        man     == SubSeq(all, 1, mbits)
        round   == all[mbits + 1]
        sticky  == \/ \E i \in (mbits + 2)..Len(all) : all[i] = 1
                   \/ \E i \in 1..Len(fb.rest) : fb.rest[i] # 0
        up      == round = 1 /\ (sticky \/ man[mbits] = 1)
        ones    == \A i \in 1..mbits : man[i] = 1
        bias    == 2 ^ (ebits - 1) - 1
        expo    == IF up /\ ones THEN e + bias + 1 ELSE e + bias
        frac    == IF up THEN IncBits(man) ELSE man
        word    == <<0>> \o FixedBits(expo, ebits) \o frac
        nbytes  == (1 + ebits + mbits) \div 8
    IN  [k \in 1..nbytes |->
            BitsToByte(SubSeq(word, 8 * (nbytes - k) + 1, 8 * (nbytes - k) + 8))]

\* -------------------------------------------------------------- encoders

\* Mutants of make_value: the name length written big-endian (">I"); the
\* tag byte counted into the name length.
make_value_big_endian(name, type_byte, data) ==
    LET n == pack_len(Len(name))
    IN  <<n[4], n[3], n[2], n[1]>> \o name \o <<type_byte>> \o data

make_value_len_counts_tag(name, type_byte, data) ==
    pack_len(Len(name) + 1) \o name \o <<type_byte>> \o data

\* generate_value_corpus.make_value
make_value(name, type_byte, data) ==
    pack_len(Len(name)) \o name \o <<type_byte>> \o data

\* generate_container_corpus.make_value
container_make_value(name, type_byte, data) ==
    pack_len(Len(name)) \o name \o <<type_byte>> \o data

\* Mutant of make_container: the count is the number of bytes, not of values.
make_container_byte_count(values) ==
    pack_len(Len(Join(values))) \o Join(values)

\* generate_container_corpus.make_container
make_container(values) == pack_len(Len(values)) \o Join(values)

\* --------------------------------------------------------------- decoder
\* The Value and Container decoders of the specification (sections 4.1 and
\* 4.2): sequential reads, each one bounds-checked before any byte is read.
\* `cursor` counts the bytes consumed (the next byte read is buf[cursor+1]);
\* `hi` is the high-water mark of the reads: one more than the largest
\* 0-based index read so far, 0 when nothing was read.

\* A 4-byte little-endian unsigned field, as its two 16-bit halves.
ReadU32(buf, cursor) ==
    [lo |-> buf[cursor + 1] + 256 * buf[cursor + 2],
     hi |-> buf[cursor + 3] + 256 * buf[cursor + 4]]

\* u <= n, for a decoded 32-bit u and a natural number n.
U32Leq(u, n) ==
    \/ u.hi < n \div 65536
    \/ u.hi = n \div 65536 /\ u.lo <= n % 65536

\* u = n
U32Eq(u, n) == u.hi = n \div 65536 /\ u.lo = n % 65536

\* The value of a decoded 32-bit field known to be small.
U32Nat(u) == u.hi * 65536 + u.lo

Remaining(buf, cursor) == Len(buf) - cursor

Slice(buf, cursor, n) == SubSeq(buf, cursor + 1, cursor + n)

ValidTags == 0..13

\* The payload width of the fixed-width variants (section 3's table).
FixedWidth(tag) ==
    CASE tag = 1 -> 1
      [] tag \in {2, 3} -> 2
      [] tag \in {4, 5, 8} -> 4
      [] tag \in {6, 7, 9} -> 8
      [] OTHER -> 0

DecodeError(err, cursor, hi, index) ==
    [ok |-> FALSE, err |-> err, cursor |-> cursor, hi |-> hi,
     name |-> <<>>, tag |-> -1, payload |-> <<>>, count |-> 0,
     index |-> index]

DecodedValue(name, tag, payload, cursor, hi) ==
    [ok |-> TRUE, err |-> "", cursor |-> cursor, hi |-> hi,
     name |-> name, tag |-> tag, payload |-> payload, count |-> 0,
     index |-> -1]

DecodedContainer(count, cursor, hi) ==
    [ok |-> TRUE, err |-> "", cursor |-> cursor, hi |-> hi,
     name |-> <<>>, tag |-> -1, payload |-> <<>>, count |-> count,
     index |-> -1]

RECURSIVE DecodeValue(_, _, _)
RECURSIVE DecodeElements(_, _, _, _, _)

\* Container Codec Decode (section 4.2): the count, then exactly `count`
\* Values, stopping at the first error.
DecodeContainer(buf, cursor, hi) ==
    IF Remaining(buf, cursor) < 4
    THEN DecodeError("Truncated", cursor, hi, -1)
    ELSE DecodeElements(buf, cursor + 4, Max(hi, cursor + 4),
                        ReadU32(buf, cursor), 0)

DecodeElements(buf, cursor, hi, count, i) ==
    IF U32Eq(count, i)
    THEN DecodedContainer(i, cursor, hi)
    ELSE LET v == DecodeValue(buf, cursor, hi)
         IN  IF v.ok
             THEN DecodeElements(buf, v.cursor, v.hi, count, i + 1)
             ELSE DecodeError("ElementDecodeFailed", v.cursor, v.hi, i)

\* The payload of a Value whose name and tag were read (step 4 of 4.1).
\* `at` is the cursor after the tag.
DecodePayload(buf, at, hi, name, tag) ==
    IF tag \notin ValidTags
    THEN DecodeError("UnknownType", at, hi, -1)
    ELSE IF tag = 0
    THEN DecodedValue(name, tag, <<>>, at, hi)
    ELSE IF tag \in 1..9
    THEN IF Remaining(buf, at) < FixedWidth(tag)
         THEN DecodeError("Truncated", at, hi, -1)
         ELSE DecodedValue(name, tag, Slice(buf, at, FixedWidth(tag)),
                           at + FixedWidth(tag),
                           Max(hi, at + FixedWidth(tag)))
    ELSE IF tag \in {10, 11}
    THEN IF Remaining(buf, at) < 4
         THEN DecodeError("Truncated", at, hi, -1)
         ELSE LET n == ReadU32(buf, at)
              IN  IF ~U32Leq(n, Remaining(buf, at + 4))
                  THEN DecodeError("Truncated", at + 4, Max(hi, at + 4), -1)
                  ELSE DecodedValue(name, tag, Slice(buf, at, 4 + U32Nat(n)),
                                    at + 4 + U32Nat(n),
                                    Max(hi, at + 4 + U32Nat(n)))
    ELSE LET c == DecodeContainer(buf, at, hi)
         IN  IF c.ok
             THEN DecodedValue(name, tag, Slice(buf, at, c.cursor - at),
                               c.cursor, c.hi)
             ELSE c

\* Value Codec Decode (section 4.1): name length, name, tag, payload.
DecodeValue(buf, cursor, hi) ==
    IF Remaining(buf, cursor) < 4
    THEN DecodeError("Truncated", cursor, hi, -1)
    ELSE LET L  == ReadU32(buf, cursor)
             c1 == cursor + 4
             h1 == Max(hi, c1)
         IN  IF ~U32Leq(L, Remaining(buf, c1))
             THEN DecodeError("Truncated", c1, h1, -1)
             ELSE LET c2 == c1 + U32Nat(L)
                      h2 == Max(h1, c2)
                  IN  IF Remaining(buf, c2) < 1
                      THEN DecodeError("Truncated", c2, h2, -1)
                      ELSE DecodePayload(buf, c2 + 1, Max(h2, c2 + 1),
                                         Slice(buf, c1, U32Nat(L)),
                                         buf[c2 + 1])

\* Decode(buffer, 0) of either codec.
Decode(kind, buf) ==
    IF kind = "container" THEN DecodeContainer(buf, 0, 0)
    ELSE DecodeValue(buf, 0, 0)

NotDecoded == DecodeError("NotDecoded", 0, 0, -1)

\* ------------------------------------------------------- fixture contents
\* generate_corpus.py's fixtures, one definition per file written.  Names
\* are ASCII byte strings.

\* make_value(b"null_test", 0, b"")
null_value ==
    make_value(<<110, 117, 108, 108, 95, 116, 101, 115, 116>>, 0, <<>>)

\* make_value(b"bool_true", 1, bytes([1]))
bool_true ==
    make_value(<<98, 111, 111, 108, 95, 116, 114, 117, 101>>, 1, <<1>>)

\* make_value(b"bool_false", 1, bytes([0]))
bool_false ==
    make_value(<<98, 111, 111, 108, 95, 102, 97, 108, 115, 101>>, 1, <<0>>)

\* make_value(b"short", 2, struct.pack("<h", -12345))
int16_value ==
    make_value(<<115, 104, 111, 114, 116>>, 2, struct_pack(2, IntLit(-12345)))

\* make_value(b"ushort", 3, struct.pack("<H", 65000))
uint16_value ==
    make_value(<<117, 115, 104, 111, 114, 116>>, 3,
               struct_pack(2, IntLit(65000)))

\* make_value(b"int", 4, struct.pack("<i", -123456789))
int32_value ==
    make_value(<<105, 110, 116>>, 4, struct_pack(4, IntLit(-123456789)))

\* make_value(b"uint", 5, struct.pack("<I", 0xDEADBEEF))
uint32_value ==
    make_value(<<117, 105, 110, 116>>, 5,
               struct_pack(4, HexLit(<<57005, 48879>>)))

\* make_value(b"llong", 6, struct.pack("<q", -9223372036854775807)),
\* 9223372036854775807 = 0x7FFF FFFF FFFF FFFF
int64_value ==
    make_value(<<108, 108, 111, 110, 103>>, 6,
               struct_pack(8, NegHexLit(<<32767, 65535, 65535, 65535>>)))

\* make_value(b"ullong", 7, struct.pack("<Q", 0xDEADBEEFCAFEBABE))
uint64_value ==
    make_value(<<117, 108, 108, 111, 110, 103>>, 7,
               struct_pack(8, HexLit(<<57005, 48879, 51966, 47806>>)))

\* make_value(b"float", 8, struct.pack("<f", 3.14159))
float_value ==
    make_value(<<102, 108, 111, 97, 116>>, 8,
               pack_float(8, 23, 3, <<1, 4, 1, 5, 9>>))

\* make_value(b"double", 9, struct.pack("<d", 2.718281828459045))
double_value ==
    make_value(<<100, 111, 117, 98, 108, 101>>, 9,
               pack_float(11, 52, 2,
                          <<7, 1, 8, 2, 8, 1, 8, 2, 8, 4, 5, 9, 0, 4, 5>>))

\* test_string = b"Hello, World!"
test_string == <<72, 101, 108, 108, 111, 44, 32, 87, 111, 114, 108, 100, 33>>

\* struct.pack("<I", len(test_string)) + test_string
string_data == pack_len(Len(test_string)) \o test_string

\* make_value(b"string", 11, string_data)
string_value == make_value(<<115, 116, 114, 105, 110, 103>>, 11, string_data)

\* test_bytes = bytes(range(256))
test_bytes == Range(256)

\* struct.pack("<I", len(test_bytes)) + test_bytes
bytes_data == pack_len(Len(test_bytes)) \o test_bytes

\* Mutant of bytes_value: the string tag on the bytes fixture.
bytes_value_string_tag == make_value(<<98, 121, 116, 101, 115>>, 11, bytes_data)

\* make_value(b"bytes", 10, bytes_data)
bytes_value == make_value(<<98, 121, 116, 101, 115>>, 10, bytes_data)

\* b""
value_empty == <<>>

\* b"\x00\x00\x00\x00"
minimal == <<0, 0, 0, 0>>

\* b"\xFF\xFF"
truncated_name_len == <<255, 255>>

\* struct.pack("<I", 0xFFFFFFFF) + b"x"
huge_name_len == struct_pack(4, HexLit(<<65535, 65535>>)) \o <<120>>

\* make_value(b"test", 255, b"\x00\x00\x00\x00")
invalid_type == make_value(<<116, 101, 115, 116>>, 255, <<0, 0, 0, 0>>)

\* make_value(b"", 4, struct.pack("<i", 42))
zero_name == make_value(<<>>, 4, struct_pack(4, IntLit(42)))

\* make_container([])
empty_container == make_container(<<>>)

\* make_container([make_value(b"test", 4, struct.pack("<i", 42))])
single_value ==
    make_container(
        <<container_make_value(<<116, 101, 115, 116>>, 4,
                               struct_pack(4, IntLit(42)))>>)

\* make_container of int_val = 123, bool_val = 1, str_val = "test"
multiple_values ==
    make_container(
        <<container_make_value(<<105, 110, 116, 95, 118, 97, 108>>, 4,
                               struct_pack(4, IntLit(123))),
          container_make_value(<<98, 111, 111, 108, 95, 118, 97, 108>>, 1,
                               <<1>>),
          container_make_value(<<115, 116, 114, 95, 118, 97, 108>>, 11,
                               pack_len(4) \o <<116, 101, 115, 116>>)>>)

\* struct.pack("<I", 0xFFFFFFFF)
huge_count == struct_pack(4, HexLit(<<65535, 65535>>))

\* Mutant of corrupted: a count the ten bytes do satisfy.
corrupted_two_values == pack_len(2) \o Zeros(10)

\* struct.pack("<I", 5) + b"\x00" * 10
corrupted == pack_len(5) \o Zeros(10)

\* b""
container_empty == <<>>

\* b"\x01\x00"
partial_count == <<1, 0>>

\* ------------------------------------------------------- generator program

StmtMkdir(dir) == [op |-> "mkdir", dir |-> dir, name |-> "", data |-> <<>>]

StmtWrite(dir, name, data) ==
    [op |-> "write", dir |-> dir, name |-> name, data |-> data]

StmtPrintCount(dir) == [op |-> "print", dir |-> dir, name |-> "", data |-> <<>>]

StmtPrintTotal == [op |-> "total", dir |-> "", name |-> "", data |-> <<>>]

\* generate_value_corpus(output_dir): its statements in order.
generate_value_corpus(output_dir) ==
    <<StmtMkdir(output_dir),
      StmtWrite(output_dir, "null_value", null_value),
      StmtWrite(output_dir, "bool_true", bool_true),
      StmtWrite(output_dir, "bool_false", bool_false),
      StmtWrite(output_dir, "int16_value", int16_value),
      StmtWrite(output_dir, "uint16_value", uint16_value),
      StmtWrite(output_dir, "int32_value", int32_value),
      StmtWrite(output_dir, "uint32_value", uint32_value),
      StmtWrite(output_dir, "int64_value", int64_value),
      StmtWrite(output_dir, "uint64_value", uint64_value),
      StmtWrite(output_dir, "float_value", float_value),
      StmtWrite(output_dir, "double_value", double_value),
      StmtWrite(output_dir, "string_value", string_value),
      StmtWrite(output_dir, "bytes_value", bytes_value),
      StmtWrite(output_dir, "empty", value_empty),
      StmtWrite(output_dir, "minimal", minimal),
      StmtWrite(output_dir, "truncated_name_len", truncated_name_len),
      StmtWrite(output_dir, "huge_name_len", huge_name_len),
      StmtWrite(output_dir, "invalid_type", invalid_type),
      StmtWrite(output_dir, "zero_name", zero_name),
      StmtPrintCount(output_dir)>>

\* generate_container_corpus(output_dir): its statements in order.
generate_container_corpus(output_dir) ==
    <<StmtMkdir(output_dir),
      StmtWrite(output_dir, "empty_container", empty_container),
      StmtWrite(output_dir, "single_value", single_value),
      StmtWrite(output_dir, "multiple_values", multiple_values),
      StmtWrite(output_dir, "huge_count", huge_count),
      StmtWrite(output_dir, "corrupted", corrupted),
      StmtWrite(output_dir, "empty", container_empty),
      StmtWrite(output_dir, "partial_count", partial_count),
      StmtPrintCount(output_dir)>>

\* Path("corpus") / "deserialize" and Path("corpus") / "container"
DeserializeDir == "corpus/deserialize"

ContainerDir == "corpus/container"

\* main(): both generators, then the total.
main_program ==
    generate_value_corpus(DeserializeDir)
    \o generate_container_corpus(ContainerDir)
    \o <<StmtPrintTotal>>

\* Mutant of output_path: every file lands in one directory.
output_path_one_dir(dir, name) == <<"corpus/deserialize", name>>

\* output_dir / name
output_path(dir, name) == <<dir, name>>

\* Mutant of open_wb_write: the file is opened "ab", the data appended.
open_ab_write(old, data) == IF old = NoBytes THEN data ELSE old \o data

\* open(path, "wb") then f.write(data): the file is truncated, then holds
\* exactly data.
open_wb_write(old, data) == data

\* ------------------------------------------------ encoder/decoder harness

NameAlphabet == {0, 255}

\* Every name of at most MaxNameLen bytes over the alphabet.
Names == UNION {[1..n -> NameAlphabet] : n \in 0..MaxNameLen}

\* Tag bytes: the 14 defined ones and two undefined ones.
TagBytes == ValidTags \cup {14, 255}

SampleValues ==
    <<make_value(<<>>, 0, <<>>),
      make_value(<<7>>, 4, <<42, 0, 0, 0>>),
      make_value(<<7, 8>>, 4, <<123, 0, 0, 0>>)>>

\* Well-formed container encodings: empty, one value, two values of one
\* type, two values of different types.
HomogeneousContainers ==
    {make_container(<<>>),
     make_container(<<SampleValues[2]>>),
     make_container(<<SampleValues[2], SampleValues[3]>>)}

SampleContainers ==
    HomogeneousContainers
    \cup {make_container(<<SampleValues[1], SampleValues[2]>>)}

\* Payloads, well formed for some tag or for none.
SamplePayloads ==
    {<<>>, <<0>>, <<1>>, <<199, 207>>, <<235, 50, 164, 248>>,
     <<1, 0, 0, 0, 0, 0, 0, 128>>,
     pack_len(0), pack_len(2) \o <<0, 255>>, pack_len(3) \o <<7>>,
     <<255, 255, 255, 255>>}
    \cup SampleContainers

\* A payload with the shape section 3's table gives for the tag.
WellFormed(tag, payload) ==
    CASE tag = 0 -> payload = <<>>
      [] tag = 1 -> Len(payload) = 1 /\ payload[1] \in {0, 1}
      [] tag \in 2..9 -> Len(payload) = FixedWidth(tag)
      [] tag \in {10, 11} ->
            /\ Len(payload) >= 4
            /\ U32Eq(ReadU32(payload, 0), Len(payload) - 4)
      [] tag = 12 -> payload \in SampleContainers
      [] tag = 13 -> payload \in HomogeneousContainers
      [] OTHER -> FALSE

\* The values a container is built from in the harness.
ElementNames == {[i \in 1..n |-> 7] : n \in 0..MaxNameLen}

ElementPayloads ==
    {<<0, <<>>>>, <<1, <<1>>>>, <<4, <<42, 0, 0, 0>>>>,
     <<11, pack_len(1) \o <<116>>>>}

IdleCodec ==
    /\ mode = "idle"
    /\ input = [which |-> "", name |-> <<>>, tag |-> 0, payload |-> <<>>]
    /\ out = NoBytes
    /\ dec = NotDecoded
    /\ valueList = <<>>
    /\ cont = NoBytes

InitCodec ==
    /\ mode \in {"value", "container"}
    /\ IF mode = "value"
       THEN input \in [which : {"value corpus", "container corpus"},
                       name : Names, tag : TagBytes,
                       payload : SamplePayloads]
       ELSE input = [which |-> "", name |-> <<>>, tag |-> 0,
                     payload |-> <<>>]
    /\ out = NoBytes
    /\ dec = NotDecoded
    /\ valueList = <<>>
    /\ cont = NoBytes

\* A call of make_value (of either corpus function).
EncodeValue ==
    /\ mode = "value"
    /\ out = NoBytes
    /\ out' = IF input.which = "value corpus"
              THEN make_value(input.name, input.tag, input.payload)
              ELSE container_make_value(input.name, input.tag, input.payload)
    /\ UNCHANGED <<mode, input, dec, valueList, cont>>
    /\ UNCHANGED <<genVars, cmpVars>>

\* The Value decoder run on the encoding.
DecodeEncoded ==
    /\ mode = "value"
    /\ out # NoBytes
    /\ dec = NotDecoded
    /\ dec' = Decode("value", out)
    /\ UNCHANGED <<mode, input, out, valueList, cont>>
    /\ UNCHANGED <<genVars, cmpVars>>

\* values.append(make_value(...)), as generate_container_corpus builds its
\* lists.
AppendValue ==
    /\ mode = "container"
    /\ cont = NoBytes
    /\ Len(valueList) < MaxValues
    /\ \E n \in ElementNames, e \in ElementPayloads :
          valueList' = Append(valueList, container_make_value(n, e[1], e[2]))
    /\ UNCHANGED <<mode, input, out, dec, cont>>
    /\ UNCHANGED <<genVars, cmpVars>>

\* A call of make_container.
MakeContainer ==
    /\ mode = "container"
    /\ cont = NoBytes
    /\ cont' = make_container(valueList)
    /\ UNCHANGED <<mode, input, out, dec, valueList>>
    /\ UNCHANGED <<genVars, cmpVars>>

\* The Container decoder run on the encoding.
DecodeContainerEncoded ==
    /\ mode = "container"
    /\ cont # NoBytes
    /\ dec = NotDecoded
    /\ dec' = Decode("container", cont)
    /\ UNCHANGED <<mode, input, out, valueList, cont>>
    /\ UNCHANGED <<genVars, cmpVars>>

NextCodec ==
    \/ EncodeValue
    \/ DecodeEncoded
    \/ AppendValue
    \/ MakeContainer
    \/ DecodeContainerEncoded

\* ------------------------------------------------------------- generator
\* main() of generate_corpus.py, statement by statement.  Two independent
\* runs ("first" and "second") execute the same program side by side, each
\* on a file system of its own that starts in a state of its own; a run may
\* be followed by another run over the directories it left.

Replicas == {"first", "second"}

Dirs == {DeserializeDir, ContainerDir}

\* Every file name the program writes, and one it never writes.
FileNames ==
    {main_program[i].name : i \in {j \in 1..Len(main_program) :
                                        main_program[j].op = "write"}}
    \cup {"stale_seed"}

AllPaths == Dirs \X FileNames

Done == Len(main_program) + 1

\* File systems a run may start on: nothing there; both directories there
\* and every file holding bytes of an earlier, different run; one directory
\* there with one leftover file.
EmptyFs ==
    [scenario |-> "empty", dirs |-> {},
     files |-> [p \in AllPaths |-> NoBytes]]

StaleFs ==
    [scenario |-> "stale", dirs |-> Dirs,
     files |-> [p \in AllPaths |-> <<222, 173, 190, 239, 0>>]]

PartialFs ==
    [scenario |-> "partial", dirs |-> {DeserializeDir},
     files |-> [p \in AllPaths |->
                   IF p = <<DeserializeDir, "empty">> THEN <<1>> ELSE NoBytes]]

InitialFs == {EmptyFs, StaleFs, PartialFs}

NoSeed == [path |-> <<"", "">>, result |-> NotDecoded]

\* len(list(output_dir.iterdir()))
CountFiles(fs, dir) ==
    Cardinality({n \in FileNames : fs.files[<<dir, n>>] # NoBytes})

\* The fixtures a run wrote, by path (NoBytes for a path it did not write).
Output(fs) ==
    [p \in AllPaths |-> IF written[p] > 0 THEN fs.files[p] ELSE NoBytes]

IdleGen ==
    /\ gpc = 0
    /\ fsys = <<>>
    /\ written = <<>>
    /\ run = 0
    /\ snapshot = <<>>
    /\ stdout = <<>>
    /\ seed = NoSeed

InitGen ==
    /\ gpc = 1
    /\ fsys \in [Replicas -> InitialFs]
    /\ written = [p \in AllPaths |-> 0]
    /\ run = 1
    /\ snapshot = [p \in AllPaths |-> NoBytes]
    /\ stdout = [r \in Replicas |-> <<>>]
    /\ seed = NoSeed

Stmt == main_program[gpc]

\* output_dir.mkdir(parents=True, exist_ok=True)
Mkdir ==
    /\ gpc \in 1..Len(main_program)
    /\ Stmt.op = "mkdir"
    /\ fsys' = [r \in Replicas |->
                   [fsys[r] EXCEPT !.dirs = @ \cup {Stmt.dir}]]
    /\ gpc' = gpc + 1
    /\ UNCHANGED <<written, run, snapshot, stdout, seed>>
    /\ UNCHANGED <<codecVars, cmpVars>>

\* with open(output_dir / name, "wb") as f: f.write(data)
WriteFixture ==
    /\ gpc \in 1..Len(main_program)
    /\ Stmt.op = "write"
    /\ \A r \in Replicas : Stmt.dir \in fsys[r].dirs
    /\ LET path == output_path(Stmt.dir, Stmt.name)
       IN  /\ fsys' = [r \in Replicas |->
                          [fsys[r] EXCEPT !.files[path] =
                              open_wb_write(@, Stmt.data)]]
           /\ written' = [written EXCEPT ![path] = @ + 1]
    /\ gpc' = gpc + 1
    /\ UNCHANGED <<run, snapshot, stdout, seed>>
    /\ UNCHANGED <<codecVars, cmpVars>>

\* print(f"Generated {len(list(output_dir.iterdir()))} seed files ...")
PrintCount ==
    /\ gpc \in 1..Len(main_program)
    /\ Stmt.op = "print"
    /\ stdout' = [r \in Replicas |->
                     Append(stdout[r], CountFiles(fsys[r], Stmt.dir))]
    /\ gpc' = gpc + 1
    /\ UNCHANGED <<fsys, written, run, snapshot, seed>>
    /\ UNCHANGED <<codecVars, cmpVars>>

\* print(f"Total files: ..."): the last statement of main().  The first
\* run's fixtures are remembered for the comparison with a later run.
PrintTotal ==
    /\ gpc \in 1..Len(main_program)
    /\ Stmt.op = "total"
    /\ stdout' = [r \in Replicas |->
                     Append(stdout[r],
                            CountFiles(fsys[r], DeserializeDir)
                            + CountFiles(fsys[r], ContainerDir))]
    /\ snapshot' = IF run = 1 THEN Output(fsys["first"]) ELSE snapshot
    /\ gpc' = gpc + 1
    /\ UNCHANGED <<fsys, written, run, seed>>
    /\ UNCHANGED <<codecVars, cmpVars>>

\* The generator is started again over the directories as they are.
Rerun ==
    /\ gpc = Done
    /\ run < MaxRuns
    /\ gpc' = 1
    /\ run' = run + 1
    /\ written' = [p \in AllPaths |-> 0]
    /\ stdout' = [r \in Replicas |-> <<>>]
    /\ seed' = NoSeed
    /\ UNCHANGED <<fsys, snapshot>>
    /\ UNCHANGED <<codecVars, cmpVars>>

\* The fuzz harness hands one file of the corpus to the decoder it seeds:
\* the Value decoder for corpus/deserialize, the Container decoder for
\* corpus/container.
SeedDecode ==
    /\ gpc = Done
    /\ seed = NoSeed
    /\ \E p \in AllPaths :
          /\ fsys["first"].files[p] # NoBytes
          /\ seed' = [path |-> p,
                      result |->
                          Decode(IF p[1] = ContainerDir THEN "container"
                                 ELSE "value",
                                 fsys["first"].files[p])]
    /\ UNCHANGED <<gpc, fsys, written, run, snapshot, stdout>>
    /\ UNCHANGED <<codecVars, cmpVars>>

NextGen ==
    \/ Mkdir
    \/ WriteFixture
    \/ PrintCount
    \/ PrintTotal
    \/ Rerun
    \/ SeedDecode

\* ------------------------------------------------------------ comparator
\* compare_benchmarks.py.  A benchmark name is an identifier and a suffix;
\* a time is an integer number of nanoseconds; the threshold and a relative
\* change are fractions [num, den], compared exactly.

BenchName(id, suffix) == [id |-> id, suffix |-> suffix]

AggregateSuffixes == {"_mean", "_median", "_stddev", "_cv"}

\* '_mean' in name or '_median' in name or '_stddev' in name or '_cv' in name
is_aggregate(name) == name.suffix \in AggregateSuffixes

\* A benchmark entry of a results file; has_real_time is FALSE for an entry
\* without the key.
Bench(name, has_real_time, real_time) ==
    [name |-> name, has_real_time |-> has_real_time,
     real_time |-> real_time, time_unit |-> "ns"]

\* bench.get('real_time', 0)
get_real_time(bench) == IF bench.has_real_time THEN bench.real_time ELSE 0

\* A dict is the sequence of its items in insertion order.
HasKey(dict, key) == \E i \in 1..Len(dict) : dict[i].key = key

Lookup(dict, key) ==
    dict[CHOOSE i \in 1..Len(dict) : dict[i].key = key].value

\* dict[key] = value
DictSet(dict, key, value) ==
    IF HasKey(dict, key)
    THEN [i \in 1..Len(dict) |->
             IF dict[i].key = key THEN [key |-> key, value |-> value]
             ELSE dict[i]]
    ELSE Append(dict, [key |-> key, value |-> value])

\* load_benchmarks' loop over data.get('benchmarks', []).
RECURSIVE load_entries(_, _)
load_entries(benchmarks, entries) ==
    IF entries = <<>> THEN benchmarks
    ELSE IF is_aggregate(Head(entries).name)
         THEN load_entries(benchmarks, Tail(entries))
         ELSE load_entries(DictSet(benchmarks, Head(entries).name,
                                   Head(entries)),
                           Tail(entries))

\* load_benchmarks(filepath) on a file that holds a results document.
load_benchmarks(file) == load_entries(<<>>, file.benchmarks)

Sign(i) == IF i < 0 THEN -1 ELSE 1

\* a < b for fractions with non-zero denominators.
RatLess(a, b) ==
    LET s == Sign(a.den) * Sign(b.den)
    IN  a.num * b.den * s < b.num * a.den * s

RatNeg(a) == [num |-> -a.num, den |-> a.den]

\* Mutant of classify: >= and <= for > and <.
classify_inclusive(change, threshold) ==
    IF ~RatLess(change, threshold) THEN "regression"
    ELSE IF ~RatLess(RatNeg(threshold), change) THEN "improvement"
    ELSE "unchanged"

\* if change > threshold ... elif change < -threshold ... else ...
classify(change, threshold) ==
    IF RatLess(threshold, change) THEN "regression"
    ELSE IF RatLess(change, RatNeg(threshold)) THEN "improvement"
    ELSE "unchanged"

NoResults == [regressions |-> <<>>, improvements |-> <<>>,
              unchanged |-> <<>>, computed |-> FALSE]

\* compare_benchmarks' loop, over the items of base not yet visited.
RECURSIVE compare_items(_, _, _, _)
compare_items(items, pr, threshold, acc) ==
    IF items = <<>> THEN acc
    ELSE LET name       == Head(items).key
             base_bench == Head(items).value
             rest       == Tail(items)
         IN  IF ~HasKey(pr, name)
             THEN compare_items(rest, pr, threshold, acc)
             ELSE LET pr_bench  == Lookup(pr, name)
                      base_time == get_real_time(base_bench)
                      pr_time   == get_real_time(pr_bench)
                  IN  IF base_time = 0
                      THEN compare_items(rest, pr, threshold, acc)
                      ELSE LET change == [num |-> pr_time - base_time,
                                          den |-> base_time]
                               result ==
                                   [name |-> name,
                                    base_time |-> base_time,
                                    pr_time |-> pr_time,
                                    change |-> change,
                                    change_pct |->
                                        [num |-> 100 * change.num,
                                         den |-> change.den],
                                    time_unit |-> base_bench.time_unit]
                               kind == classify(change, threshold)
                           IN  compare_items(rest, pr, threshold,
                                 CASE kind = "regression" ->
                                        [acc EXCEPT !.regressions =
                                            Append(@, result)]
                                   [] kind = "improvement" ->
                                        [acc EXCEPT !.improvements =
                                            Append(@, result)]
                                   [] OTHER ->
                                        [acc EXCEPT !.unchanged =
                                            Append(@, result)])

\* compare_benchmarks(base, pr, threshold)
compare_benchmarks(base, pr, threshold) ==
    compare_items(base, pr, threshold,
                  [NoResults EXCEPT !.computed = TRUE])

NoReport == [written |-> FALSE, total |-> 0, regressions |-> 0,
             improvements |-> 0, unchanged |-> 0, status |-> ""]

\* generate_report(...): the summary counts and the status line of the
\* Markdown text (the tables repeat the result lists row by row).
generate_report(regressions, improvements, unchanged, threshold) ==
    [written |-> TRUE,
     total |-> Len(regressions) + Len(improvements) + Len(unchanged),
     regressions |-> Len(regressions),
     improvements |-> Len(improvements),
     unchanged |-> Len(unchanged),
     status |-> IF regressions # <<>>
                THEN "Performance regressions detected"
                ELSE "No significant performance regressions detected"]

\* Mutant of exit_code: main ends normally whatever was found.
exit_code_always_zero(regressions) == 0

\* main's last lines: sys.exit(1) after a regression, else the end of
\* main (status 0).
exit_code(regressions) == IF regressions # <<>> THEN 1 ELSE 0

\* --- the comparator's inputs

MissingFile == [state |-> "missing", benchmarks |-> <<>>]

\* A file that exists and does not hold a results document: json.load or
\* data.get raises.
MalformedFile == [state |-> "malformed", benchmarks |-> <<>>]

JsonFile(benchmarks) == [state |-> "json", benchmarks |-> benchmarks]

BenchIds == 1..NumNames

\* What a file holds for one benchmark: no entry, an entry without
\* real_time, or an entry with the given real_time.
NoEntry == "none"

NoKey == "nokey"

BaseChoices == {<<NoEntry, 0>>, <<NoKey, 0>>, <<"time", 0>>, <<"time", 100>>}

PrChoices ==
    {<<NoEntry, 0>>, <<"time", 89>>, <<"time", 90>>, <<"time", 100>>,
     <<"time", 110>>, <<"time", 111>>}

RECURSIVE EntriesFrom(_, _)
EntriesFrom(choice, id) ==
    IF id > NumNames THEN <<>>
    ELSE (IF choice[id][1] = NoEntry THEN <<>>
          ELSE <<Bench(BenchName(id, ""), choice[id][1] = "time",
                       choice[id][2])>>)
         \o EntriesFrom(choice, id + 1)

\* An aggregate row of Google Benchmark, ahead of the plain entries.
AggregateEntry(real_time) == Bench(BenchName(1, "_mean"), TRUE, real_time)

Documents(choices, aggregate_time) ==
    {JsonFile(agg \o EntriesFrom(c, 1)) :
        c \in [BenchIds -> choices],
        agg \in {<<>>, <<AggregateEntry(aggregate_time)>>}}

\* --threshold, in hundredths.
Thresholds == {[num |-> 10, den |-> 100], [num |-> -10, den |-> 100]}

IdleCmp ==
    /\ cpc = "idle"
    /\ args = [base |-> MissingFile, pr |-> MissingFile,
               threshold |-> [num |-> 10, den |-> 100],
               output_writable |-> TRUE]
    /\ baseLoaded = <<>>
    /\ prLoaded = <<>>
    /\ results = NoResults
    /\ outputs = [report |-> NoReport, regression_detected |-> FALSE]
    /\ exitStatus = -1

InitCmp ==
    /\ cpc = "validate"
    /\ args \in [base : {MissingFile, MalformedFile}
                        \cup Documents(BaseChoices, 1000),
                 pr : {MissingFile, MalformedFile}
                      \cup Documents(PrChoices, 2000),
                 threshold : Thresholds,
                 output_writable : BOOLEAN]
    /\ baseLoaded = <<>>
    /\ prLoaded = <<>>
    /\ results = NoResults
    /\ outputs = [report |-> NoReport, regression_detected |-> FALSE]
    /\ exitStatus = -1

\* if not Path(args.base).exists(): sys.exit(1); the same for args.pr
ValidateInputs ==
    /\ cpc = "validate"
    /\ IF args.base.state = "missing" \/ args.pr.state = "missing"
       THEN cpc' = "exited" /\ exitStatus' = 1
       ELSE cpc' = "load" /\ UNCHANGED exitStatus
    /\ UNCHANGED <<args, baseLoaded, prLoaded, results, outputs>>
    /\ UNCHANGED <<codecVars, genVars>>

\* base = load_benchmarks(args.base); pr = load_benchmarks(args.pr).  An
\* exception raised while loading is caught nowhere: the interpreter prints
\* the traceback and exits with status 1.
LoadInputs ==
    /\ cpc = "load"
    /\ IF args.base.state = "malformed" \/ args.pr.state = "malformed"
       THEN /\ cpc' = "exited"
            /\ exitStatus' = 1
            /\ UNCHANGED <<baseLoaded, prLoaded>>
       ELSE /\ baseLoaded' = load_benchmarks(args.base)
            /\ prLoaded' = load_benchmarks(args.pr)
            /\ cpc' = "compare"
            /\ UNCHANGED exitStatus
    /\ UNCHANGED <<args, results, outputs>>
    /\ UNCHANGED <<codecVars, genVars>>

\* regressions, improvements, unchanged = compare_benchmarks(...)
Compare ==
    /\ cpc = "compare"
    /\ results' = compare_benchmarks(baseLoaded, prLoaded, args.threshold)
    /\ cpc' = "report"
    /\ UNCHANGED <<args, baseLoaded, prLoaded, outputs, exitStatus>>
    /\ UNCHANGED <<codecVars, genVars>>

\* report = generate_report(...); open(args.output, 'w').write(report).
\* When args.output cannot be opened for writing (its directory does not
\* exist, say) open raises, and the uncaught exception ends the process
\* with status 1.
WriteReport ==
    /\ cpc = "report"
    /\ IF args.output_writable
       THEN /\ outputs' = [outputs EXCEPT !.report =
                              generate_report(results.regressions,
                                              results.improvements,
                                              results.unchanged,
                                              args.threshold)]
            /\ cpc' = "verdict"
            /\ UNCHANGED exitStatus
       ELSE /\ cpc' = "exited"
            /\ exitStatus' = 1
            /\ UNCHANGED outputs
    /\ UNCHANGED <<args, baseLoaded, prLoaded, results>>
    /\ UNCHANGED <<codecVars, genVars>>

\* if regressions: touch regression_detected, sys.exit(1); else main ends.
Verdict ==
    /\ cpc = "verdict"
    /\ outputs' = [outputs EXCEPT !.regression_detected =
                      @ \/ results.regressions # <<>>]
    /\ exitStatus' = exit_code(results.regressions)
    /\ cpc' = "exited"
    /\ UNCHANGED <<args, baseLoaded, prLoaded, results>>
    /\ UNCHANGED <<codecVars, genVars>>

NextCmp ==
    \/ ValidateInputs
    \/ LoadInputs
    \/ Compare
    \/ WriteReport
    \/ Verdict

\* ---------------------------------------------------------- specifications

\* The encoders and the decoder on drawn inputs.
InitCodecSpec == InitCodec /\ IdleGen /\ IdleCmp

SpecCodec == InitCodecSpec /\ [][NextCodec]_vars

\* The corpus generator.
InitGenSpec == InitGen /\ IdleCodec /\ IdleCmp

SpecGen == InitGenSpec /\ [][NextGen]_vars

\* The benchmark comparator.
InitCmpSpec == InitCmp /\ IdleCodec /\ IdleGen

SpecCmp == InitCmpSpec /\ [][NextCmp]_vars

\* ------------------------------------------------------------------ claims

\* The total length of the first k byte strings of a list.
RECURSIVE SumLen(_, _)
SumLen(list, k) == IF k = 0 THEN 0 ELSE SumLen(list, k - 1) + Len(list[k])

\* C1: make_value(name, tag, payload) is the 4-byte little-endian length of
\* the name, the name bytes, the tag byte, the payload bytes, and nothing
\* else, so it is 4 + len(name) + 1 + len(payload) bytes long; the make_value
\* of the value corpus and the one of the container corpus agree.
C1_MakeValueLayout ==
    (mode = "value" /\ out # NoBytes) =>
        LET n == Len(input.name)
        IN  /\ Len(out) = 4 + n + 1 + Len(input.payload)
            /\ out[1] + 256 * out[2] = n % 65536
            /\ out[3] + 256 * out[4] = n \div 65536
            /\ \A i \in 1..n : out[4 + i] = input.name[i]
            /\ out[5 + n] = input.tag
            /\ \A i \in 1..Len(input.payload) :
                  out[5 + n + i] = input.payload[i]
            /\ make_value(input.name, input.tag, input.payload)
               = container_make_value(input.name, input.tag, input.payload)

\* C1's case: the container corpus' make_value has encoded a named value
\* with an undefined tag and a payload.
C1_Witness ==
    /\ mode = "value"
    /\ out # NoBytes
    /\ input.which = "container corpus"
    /\ Len(input.name) = MaxNameLen
    /\ input.tag = 255
    /\ Len(input.payload) > 4

\* C2: for a tag in 0..13 and a payload well formed for it, the Value
\* decoder at cursor 0 of make_value(name, tag, payload) succeeds, returns
\* the name, the tag and the payload, and a cursor equal to the length of
\* the encoding.
C2_RoundTrip ==
    (/\ mode = "value"
     /\ dec # NotDecoded
     /\ input.tag \in ValidTags
     /\ WellFormed(input.tag, input.payload)) =>
        /\ dec.ok
        /\ dec.name = input.name
        /\ dec.tag = input.tag
        /\ dec.payload = input.payload
        /\ dec.cursor = Len(out)

\* C2's case: a named value holding a non-empty container was encoded and
\* decoded.
C2_Witness ==
    /\ mode = "value"
    /\ dec # NotDecoded
    /\ input.which = "value corpus"
    /\ input.tag = 12
    /\ WellFormed(input.tag, input.payload)
    /\ Len(input.payload) > 4
    /\ Len(input.name) = MaxNameLen
    /\ dec.ok

\* C6: make_container(values) is the 4-byte little-endian number of values
\* followed by the values' bytes in list order, nothing between or after
\* them; for the empty list it is 00 00 00 00.
C6_MakeContainerLayout ==
    (mode = "container" /\ cont # NoBytes) =>
        LET n == Len(valueList)
        IN  /\ Len(cont) = 4 + SumLen(valueList, n)
            /\ cont[1] + 256 * cont[2] = n % 65536
            /\ cont[3] + 256 * cont[4] = n \div 65536
            /\ \A i \in 1..n :
                  SubSeq(cont, 4 + SumLen(valueList, i - 1) + 1,
                         4 + SumLen(valueList, i)) = valueList[i]
            /\ (n = 0 => cont = <<0, 0, 0, 0>>)

\* C6's case: a container was made of N > 1 values of different lengths.
C6_Witness ==
    /\ mode = "container"
    /\ cont # NoBytes
    /\ Len(valueList) >= 2
    /\ Len(valueList[1]) # Len(valueList[2])

\* The value corpus' and the container corpus' file names (section 6).
ValueNames ==
    {"null_value", "bool_true", "bool_false", "int16_value", "uint16_value",
     "int32_value", "uint32_value", "int64_value", "uint64_value",
     "float_value", "double_value", "string_value", "bytes_value", "empty",
     "minimal", "truncated_name_len", "huge_name_len", "invalid_type",
     "zero_name"}

ContainerNames ==
    {"empty_container", "single_value", "multiple_values", "huge_count",
     "corrupted", "empty", "partial_count"}

ExpectedPaths ==
    ({DeserializeDir} \X ValueNames) \cup ({ContainerDir} \X ContainerNames)

WrittenPaths == {p \in AllPaths : written[p] > 0}

ExistingPaths(fs) == {p \in AllPaths : fs.files[p] # NoBytes}

\* The deliberately malformed fixtures.
MalformedPaths ==
    {<<DeserializeDir, "empty">>, <<DeserializeDir, "truncated_name_len">>,
     <<DeserializeDir, "huge_name_len">>, <<ContainerDir, "empty">>,
     <<ContainerDir, "partial_count">>, <<ContainerDir, "huge_count">>,
     <<ContainerDir, "corrupted">>}

\* C3: the decoder, given a malformed fixture, ends in Truncated,
\* LengthOverflow or ElementDecodeFailed, never in success, and reads no
\* byte at an index at or beyond the length of the fixture.
C3_MalformedRejected ==
    (seed # NoSeed /\ seed.path \in MalformedPaths) =>
        /\ ~seed.result.ok
        /\ seed.result.err
             \in {"Truncated", "LengthOverflow", "ElementDecodeFailed"}
        /\ seed.result.hi <= Len(fsys["first"].files[seed.path])

\* C3's case: `corrupted` (count 5, ten zero bytes) was decoded: two null
\* values are found in the ten bytes and the third element is truncated.
C3_Witness ==
    /\ seed.path = <<ContainerDir, "corrupted">>
    /\ seed.result.err = "ElementDecodeFailed"
    /\ seed.result.index = 2
    /\ seed.result.hi = 14

\* bytes is the whole encoding of one Value with the tag.
ValidValueOf(bytes, tag) ==
    LET d == Decode("value", bytes)
    IN  d.ok /\ d.tag = tag /\ d.cursor = Len(bytes)

\* Some fixture written by the run is a valid Value with the tag.
HasFixture(tag) ==
    \E p \in WrittenPaths : ValidValueOf(fsys["first"].files[p], tag)

\* C4, as stated: the fixtures hold a valid Value for each of the tags
\* 0..13.
C4_AllTagsCovered == gpc = Done => \A t \in ValidTags : HasFixture(t)

\* C4, amended: the fixtures hold a valid Value for each of the tags 0..11,
\* and none for the tags 12 (container) and 13 (array).
C4_ScalarTagsCovered ==
    gpc = Done =>
        /\ \A t \in 0..11 : HasFixture(t)
        /\ ~HasFixture(12)
        /\ ~HasFixture(13)

\* C4's case: a run has written all its fixtures, the bytes and the string
\* one among them.
C4_Witness ==
    /\ gpc = Done
    /\ run = 1
    /\ ValidValueOf(fsys["first"].files[<<DeserializeDir, "bytes_value">>], 10)
    /\ ValidValueOf(fsys["first"].files[<<DeserializeDir, "string_value">>],
                    11)

\* C5: a run writes exactly the 19 value-corpus names and the 7
\* container-corpus names, each once; into empty directories these are the
\* only files there; the two `empty` fixtures are two files.
C5_FixtureNames ==
    /\ \A p \in AllPaths : written[p] <= 1
    /\ gpc = Done =>
          /\ WrittenPaths = ExpectedPaths
          /\ Cardinality(WrittenPaths) = 26
          /\ \A r \in Replicas :
                fsys[r].scenario = "empty" =>
                    ExistingPaths(fsys[r]) = ExpectedPaths
          /\ written[<<DeserializeDir, "empty">>] = 1
          /\ written[<<ContainerDir, "empty">>] = 1

\* C5's case: a first run into empty directories has ended.
C5_Witness ==
    /\ gpc = Done
    /\ run = 1
    /\ fsys["first"].scenario = "empty"
    /\ fsys["first"].files[<<ContainerDir, "empty">>] = <<>>

\* The integer fixtures: file name, tag, width of the type table, value.
IntegerFixtures ==
    {<<"int16_value", 2, 2, IntLit(-12345)>>,
     <<"uint16_value", 3, 2, IntLit(65000)>>,
     <<"int32_value", 4, 4, IntLit(-123456789)>>,
     <<"uint32_value", 5, 4, HexLit(<<57005, 48879>>)>>,
     <<"int64_value", 6, 8, NegHexLit(<<32767, 65535, 65535, 65535>>)>>,
     <<"uint64_value", 7, 8, HexLit(<<57005, 48879, 51966, 47806>>)>>,
     <<"zero_name", 4, 4, IntLit(42)>>}

\* The 16-bit limbs of a payload read as a little-endian number, least
\* significant first.
PayloadLimbs(payload) ==
    [k \in 1..(Len(payload) \div 2) |->
        payload[2 * k - 1] + 256 * payload[2 * k]]

\* The n least significant limbs of a magnitude, least significant first.
MagnitudeLimbs(limbs, n) ==
    [k \in 1..n |-> IF k <= Len(limbs) THEN limbs[Len(limbs) + 1 - k] ELSE 0]

\* a + b = 2^(16 * Len(a)): every limb of the sum is 0 and a carry leaves
\* the last one.
RECURSIVE SumIsPowerOfTwo(_, _, _, _)
SumIsPowerOfTwo(a, b, k, carry) ==
    IF k > Len(a) THEN carry = 1
    ELSE /\ (a[k] + b[k] + carry) % 65536 = 0
         /\ SumIsPowerOfTwo(a, b, k + 1, (a[k] + b[k] + carry) \div 65536)

\* payload is the little-endian encoding of v, two's complement modulo
\* 2^(8 * Len(payload)) for a negative v.
EncodesValue(payload, v) ==
    LET got  == PayloadLimbs(payload)
        want == MagnitudeLimbs(v.limbs, Len(payload) \div 2)
    IN  IF v.neg THEN SumIsPowerOfTwo(got, want, 1, 0) ELSE got = want

\* C7: every integer fixture's payload has the width of its tag (2, 2, 4,
\* 4, 8, 8 bytes for the tags 2..7) and is the little-endian encoding of
\* its value, two's complement for the signed tags; int32_value is
\* 03 00 00 00 69 6E 74 04 EB 32 A4 F8.
C7_IntegerPayloads ==
    gpc = Done =>
        /\ \A f \in IntegerFixtures :
              LET file    == fsys["first"].files[<<DeserializeDir, f[1]>>]
                  n       == file[1]
                  payload == SubSeq(file, 4 + n + 2, Len(file))
              IN  /\ file[4 + n + 1] = f[2]
                  /\ Len(payload) = f[3]
                  /\ f[3] = <<2, 2, 4, 4, 8, 8>>[f[2] - 1]
                  /\ EncodesValue(payload, f[4])
        /\ \A name \in ValueNames, t \in 2..7 :
              ValidValueOf(fsys["first"].files[<<DeserializeDir, name>>], t)
                  => \E f \in IntegerFixtures : f[1] = name /\ f[2] = t
        /\ fsys["first"].files[<<DeserializeDir, "int32_value">>]
           = <<3, 0, 0, 0, 105, 110, 116, 4, 235, 50, 164, 248>>

\* C7's case: the run has written the most negative fixture, int64_value.
C7_Witness ==
    /\ gpc = Done
    /\ fsys["first"].files[<<DeserializeDir, "int64_value">>]
       = <<5, 0, 0, 0, 108, 108, 111, 110, 103, 6, 1, 0, 0, 0, 0, 0, 0, 128>>

\* C8: two independent runs, whatever their directories held before, write
\* the same names with the same bytes, and a run over the output of an
\* earlier run leaves every fixture as the first run wrote it.
C8_Determinism ==
    gpc = Done =>
        /\ Output(fsys["first"]) = Output(fsys["second"])
        /\ run > 1 => Output(fsys["first"]) = snapshot

\* C8's case: a second run has ended, on one file system that started
\* empty and one that started full of another run's files.
C8_Witness ==
    /\ gpc = Done
    /\ run = 2
    /\ fsys["first"].scenario = "empty"
    /\ fsys["second"].scenario = "stale"

\* Every benchmark name a results file can hold.
AllBenchNames == {BenchName(i, x) : i \in BenchIds, x \in {"", "_mean"}}

\* How often a result list names a benchmark.
Occurrences(list, name) ==
    Cardinality({i \in 1..Len(list) : list[i].name = name})

\* The benchmark is in both dicts and its base real_time is not 0.
Compared(name) ==
    /\ HasKey(baseLoaded, name)
    /\ HasKey(prLoaded, name)
    /\ get_real_time(Lookup(baseLoaded, name)) # 0

\* (pr_time - base_time) / base_time > threshold, respectively < -threshold,
\* cross-multiplied (base times and the threshold's denominator are
\* positive).
AboveThreshold(name) ==
    LET b == get_real_time(Lookup(baseLoaded, name))
        t == get_real_time(Lookup(prLoaded, name))
    IN  (t - b) * args.threshold.den > args.threshold.num * b

BelowMinusThreshold(name) ==
    LET b == get_real_time(Lookup(baseLoaded, name))
        t == get_real_time(Lookup(prLoaded, name))
    IN  (t - b) * args.threshold.den < (-args.threshold.num) * b

InOneList(name) ==
    Occurrences(results.regressions, name)
    + Occurrences(results.improvements, name)
    + Occurrences(results.unchanged, name) = 1

InNoList(name) ==
    Occurrences(results.regressions, name)
    + Occurrences(results.improvements, name)
    + Occurrences(results.unchanged, name) = 0

\* C9, as stated: a compared benchmark is in exactly one list: regressions
\* iff its change is > threshold, improvements iff it is < -threshold,
\* unchanged otherwise; a benchmark that is not compared is in no list.
C9_Classification ==
    results.computed =>
        \A name \in AllBenchNames :
            IF Compared(name)
            THEN /\ InOneList(name)
                 /\ Occurrences(results.regressions, name) = 1
                        <=> AboveThreshold(name)
                 /\ Occurrences(results.improvements, name) = 1
                        <=> BelowMinusThreshold(name)
                 /\ Occurrences(results.unchanged, name) = 1
                        <=> (~AboveThreshold(name)
                             /\ ~BelowMinusThreshold(name))
            ELSE InNoList(name)

\* C9, amended: as C9, but improvements iff the change is < -threshold and
\* not > threshold (the two differ for a negative threshold, where a change
\* can be both and is a regression).
C9_ClassificationFirstMatch ==
    results.computed =>
        \A name \in AllBenchNames :
            IF Compared(name)
            THEN /\ InOneList(name)
                 /\ Occurrences(results.regressions, name) = 1
                        <=> AboveThreshold(name)
                 /\ Occurrences(results.improvements, name) = 1
                        <=> (BelowMinusThreshold(name)
                             /\ ~AboveThreshold(name))
                 /\ Occurrences(results.unchanged, name) = 1
                        <=> (~AboveThreshold(name)
                             /\ ~BelowMinusThreshold(name))
            ELSE InNoList(name)

\* C9's case: with a threshold of 10%, one benchmark exactly 10% slower is
\* unchanged, while an aggregate row and a benchmark with base time 0 are
\* left out.
C9_Witness ==
    /\ results.computed
    /\ args.threshold.num = 10
    /\ \E i \in 1..Len(results.unchanged) :
          /\ results.unchanged[i].base_time = 100
          /\ results.unchanged[i].pr_time = 110
    /\ \E name \in AllBenchNames :
          /\ HasKey(baseLoaded, name)
          /\ HasKey(prLoaded, name)
          /\ ~Compared(name)
    /\ Len(args.base.benchmarks) > Len(baseLoaded)

BothExist == args.base.state # "missing" /\ args.pr.state # "missing"

BothLoad == args.base.state = "json" /\ args.pr.state = "json"

====
